---- MODULE Spec2Model ----
(***************************************************************************)
(* Model of the CropTransparentTriangles plugin: runCrop of src/main.js     *)
(* (histogram-stack search) and runCrop of src/unnamed/part_000            *)
(* (row-profile search), from the moment core.executeAsModal starts the    *)
(* modal callback.                                                          *)
(*                                                                          *)
(* Numbers are held in thousandths (Milli units per 1) so that the float   *)
(* threshold 0.002 is an integer: 256 is 256 * Milli, 0.002 is 2.          *)
(***************************************************************************)
EXTENDS Integers, Sequences, FiniteSets

\* ---------------------------------------------------------------- bounds
MaxW == 4
MaxH == 3
MaxCells == 9

\* ------------------------------------------------------------- constants
Milli == 1000
INSET == 1

\* Bit depths the host may report: 8, 16, 32 and one unexpected value.
CompSizes == {8, 16, 32, 24}
\* Component counts: RGBA and plain RGB.
CompCounts == {3, 4}

\* Alpha samples the host may deliver at each depth, in thousandths: the two
\* values around the documented cut (1 and 2 of 0..255, 255 and 256 of
\* 0..65535, 0.001 and 0.002 of 0..1).
SampleValues(cs) ==
  IF cs = 16 THEN {255 * Milli, 256 * Milli}
  ELSE IF cs = 32 THEN {1, 2}
  ELSE {1 * Milli, 2 * Milli}

VARIABLES
  pc,        \* position inside the modal callback
  width,     \* Math.round(px(doc.width))
  height,    \* Math.round(px(doc.height))
  hasImage,  \* imageObj && imageObj.imageData
  comps,     \* imageObj.imageData.components
  csize,     \* imageObj.imageData.componentSize
  sb,        \* imageObj.sourceBounds
  data,      \* chunky RGBA buffer returned by getData (1-based sequence)
  offX, offY, w, h, THR,
  heights,   \* Int32Array(w), indexed 0..w-1
  stack,     \* stack of column indices
  y, i,      \* loop counters
  bestArea, bestL, bestR, bestT, bestB,
  L, R,      \* row profile (part_000), indexed 0..h-1
  y0, maxL, minR,
  disposed,  \* number of imageData.dispose() calls
  getDataCalls, \* number of imageData.getData() calls
  cropCalls  \* sequence of regions passed to doc.crop

vars == <<pc, width, height, hasImage, comps, csize, sb, data, offX, offY, w, h,
          THR, heights, stack, y, i, bestArea, bestL, bestR, bestT, bestB,
          L, R, y0, maxL, minR, disposed, getDataCalls, cropCalls>>

inputVars == <<width, height, hasImage, comps, csize, sb, data>>
boundsVars == <<offX, offY, w, h, THR>>
histVars == <<heights, stack, i>>
bestVars == <<bestArea, bestL, bestR, bestT, bestB>>
profileVars == <<L, R, y0, maxL, minR>>
hostVars == <<disposed, getDataCalls, cropCalls>>

\* --------------------------------------------------------------- helpers
Min(a, b) == IF a < b THEN a ELSE b
Max(a, b) == IF a > b THEN a ELSE b

alphaThreshold(componentSize) ==
  IF componentSize = 16 THEN 256 * Milli
  ELSE IF componentSize = 32 THEN 2
  ELSE 2 * Milli

\* data[row + x * 4 + 3] with row = y * w * 4 (JavaScript index, 0-based)
AlphaAt(d, ww, x, yy) == d[(yy * ww * 4 + x * 4 + 3) + 1]

\* The document is MaxW x MaxH pixels; getPixels may report any part of the
\* requested {left: 0, top: 0, right: width, bottom: height} as its source
\* bounds, of at most MaxCells pixels.
DocSizes == {<<MaxW, MaxH>>}

SourceBounds(wd, ht) ==
  {[left |-> l, top |-> t, right |-> r, bottom |-> b] :
     l \in 0..(wd - 1), t \in 0..(ht - 1), r \in 1..wd, b \in 1..ht}

ValidBounds(wd, ht) ==
  {s \in SourceBounds(wd, ht) :
     /\ s.left < s.right /\ s.top < s.bottom
     /\ (s.right - s.left) * (s.bottom - s.top) <= MaxCells}

\* Chunky RGBA buffers of ww * hh pixels; the colour components are 0.
Buffers(ww, hh, cs) ==
  {[k \in 1..(ww * hh * 4) |-> IF k % 4 = 0 THEN a[k \div 4] ELSE 0] :
     a \in [1..(ww * hh) -> SampleValues(cs)]}

\* sb before getPixels has answered. The fallback of line 81 (a missing
\* sourceBounds reads as the requested bounds) yields bounds at the origin,
\* which ValidBounds holds as reported ones.
NoBounds == [left |-> 0, top |-> 0, right |-> 0, bottom |-> 0]

\* ------------------------------------------------------------------ Init
Init ==
  /\ pc = "getPixels"
  /\ \E s \in DocSizes : width = s[1] /\ height = s[2]
  /\ hasImage = FALSE
  /\ comps = 0
  /\ csize = 0
  /\ sb = NoBounds
  /\ data = <<>>
  /\ offX = 0 /\ offY = 0 /\ w = 0 /\ h = 0 /\ THR = 0
  /\ heights = <<>>
  /\ stack = <<>>
  /\ y = 0 /\ i = 0
  /\ bestArea = 0 /\ bestL = 0 /\ bestR = 0 /\ bestT = 0 /\ bestB = 0
  /\ L = <<>> /\ R = <<>>
  /\ y0 = -1 /\ maxL = 0 /\ minR = 0
  /\ disposed = 0
  /\ getDataCalls = 0
  /\ cropCalls = <<>>

\* ------------------------------------------------- common prefix (49-87)
\* imaging.getPixels and the test of line 56.
GetPixels ==
  /\ pc = "getPixels"
  /\ \/ /\ hasImage' = FALSE
        /\ pc' = "done"
        /\ UNCHANGED <<comps, csize, sb>>
     \/ /\ hasImage' = TRUE
        /\ comps' \in CompCounts
        /\ csize' \in CompSizes
        /\ sb' \in ValidBounds(width, height)
        /\ pc' = "checkComps"
  /\ UNCHANGED <<width, height, data, boundsVars, histVars, y, bestVars,
                 profileVars, hostVars>>

\* Bug variant: only a buffer with fewer than three components is refused.
MissingAlphaBelowRGB(c) == c < 3

\* Line 62.
MissingAlpha(c) == c # 4

\* Lines 58-65: decline when there is no alpha channel.
CheckComponents ==
  /\ pc = "checkComps"
  /\ IF MissingAlpha(comps)
       THEN /\ disposed' = disposed + 1
            /\ pc' = "done"
       ELSE /\ disposed' = disposed
            /\ pc' = "getData"
  /\ UNCHANGED <<inputVars, boundsVars, histVars, y, bestVars, profileVars,
                 getDataCalls, cropCalls>>

\* Lines 69-79: getData and the empty-data exit.
GetData ==
  /\ pc = "getData"
  /\ getDataCalls' = getDataCalls + 1
  /\ \/ /\ data' = <<>>
        /\ disposed' = disposed + 1
        /\ pc' = "done"
     \/ /\ data' \in Buffers(sb.right - sb.left, sb.bottom - sb.top, csize)
        /\ disposed' = disposed
        /\ pc' = "readBounds"
  /\ UNCHANGED <<width, height, hasImage, comps, csize, sb, boundsVars,
                 histVars, y, bestVars, profileVars, cropCalls>>

\* ------------------------------------------ main.js: histogram search
\* Lines 81-95.
ReadBounds ==
  /\ pc = "readBounds"
  /\ offX' = sb.left
  /\ offY' = sb.top
  /\ w' = sb.right - sb.left
  /\ h' = sb.bottom - sb.top
  /\ THR' = alphaThreshold(csize)
  /\ heights' = [x \in 0..(sb.right - sb.left - 1) |-> 0]
  /\ bestArea' = 0 /\ bestL' = 0 /\ bestR' = 0 /\ bestT' = 0 /\ bestB' = 0
  /\ y' = 0
  /\ pc' = "rows"
  /\ UNCHANGED <<inputVars, stack, i, profileVars, hostVars>>

\* Bug variant: the run length is not accumulated over rows.
UpdatedHeightNoRun(a, thr, old) == IF a >= thr THEN 1 ELSE 0

\* Bug variant: every non-zero alpha counts as opaque.
UpdatedHeightNonZero(a, thr, old) == IF a > 0 THEN old + 1 ELSE 0

\* Bug variant: a sample equal to the threshold counts as transparent.
UpdatedHeightStrict(a, thr, old) == IF a > thr THEN old + 1 ELSE 0

\* Line 103 for one column.
UpdatedHeight(a, thr, old) == IF a >= thr THEN old + 1 ELSE 0

\* Lines 97-107: the histogram update of row y and a fresh stack.
UpdateHeights ==
  /\ pc = "rows"
  /\ y < h
  /\ heights' = [x \in 0..(w - 1) |->
                   UpdatedHeight(AlphaAt(data, w, x, y), THR, heights[x])]
  /\ stack' = <<>>
  /\ i' = 0
  /\ pc' = "scan"
  /\ UNCHANGED <<inputVars, boundsVars, y, bestVars, profileVars, hostVars>>

\* Bug variant: no sentinel height 0 at i = w, so the stack is never flushed.
curHNoSentinel == heights[Min(i, w - 1)]

\* Line 109.
curH == IF i = w THEN 0 ELSE heights[i]

\* Condition of the while loop of line 111.
MustPop == Len(stack) > 0 /\ curH < heights[stack[Len(stack)]]

\* Bug variant: a candidate of equal area replaces the recorded best.
ImprovesOrTies(area, best) == area >= best

\* Line 121.
Improves(area, best) == area > best

\* Bug variant: the column below the popped one is taken into the rectangle.
LeftEdgeOffByOne(rest) == IF Len(rest) > 0 THEN rest[Len(rest)] ELSE 0

\* Line 117: stack.length ? stack[stack.length - 1] + 1 : 0, after the pop.
LeftEdge(rest) == IF Len(rest) > 0 THEN rest[Len(rest)] + 1 ELSE 0

\* Lines 111-128: one iteration of the while loop.
PopStep ==
  /\ pc = "scan"
  /\ i <= w
  /\ MustPop
  /\ LET topIdx == stack[Len(stack)]
         rest == SubSeq(stack, 1, Len(stack) - 1)
         hgt == heights[topIdx]
         right == i
         left == LeftEdge(rest)
         widthRect == right - left
         area == hgt * widthRect
     IN /\ stack' = rest
        /\ IF hgt > 0 /\ Improves(area, bestArea)
             THEN /\ bestArea' = area
                  /\ bestL' = left
                  /\ bestR' = right
                  /\ bestB' = y + 1
                  /\ bestT' = (y + 1) - hgt
             ELSE UNCHANGED bestVars
  /\ UNCHANGED <<pc, inputVars, boundsVars, heights, y, i, profileVars, hostVars>>

\* Line 130 and the loop increments of lines 108 and 97.
PushStep ==
  /\ pc = "scan"
  /\ i <= w
  /\ ~MustPop
  /\ stack' = Append(stack, i)
  /\ i' = i + 1
  /\ IF i + 1 <= w
       THEN /\ pc' = "scan" /\ y' = y
       ELSE /\ pc' = "rows" /\ y' = y + 1
  /\ UNCHANGED <<inputVars, boundsVars, heights, bestVars, profileVars, hostVars>>

\* Lines 134-137: nothing opaque was found.
NoRectangle ==
  /\ pc = "rows"
  /\ y >= h
  /\ bestArea <= 0
  /\ disposed' = disposed + 1
  /\ pc' = "done"
  /\ UNCHANGED <<inputVars, boundsVars, histVars, y, bestVars, profileVars,
                 getDataCalls, cropCalls>>

Clamp(v, lo, hi) == Min(hi, Max(lo, v))

\* Lines 141-144 (main.js) and 162-165 (part_000).
CropRegion ==
  [left   |-> Clamp(offX + bestL + INSET, 0, width),
   right  |-> Clamp(offX + bestR - INSET, 0, width),
   top    |-> Clamp(offY + bestT + INSET, 0, height),
   bottom |-> Clamp(offY + bestB - INSET, 0, height)]

\* Bug variant: an empty region is still passed to doc.crop.
NonDegenerateLoose(c) == c.left <= c.right /\ c.top <= c.bottom

\* Line 146 (main.js) and 167 (part_000).
NonDegenerate(c) == c.left < c.right /\ c.top < c.bottom

\* Lines 139-150: map to document coordinates and crop.
MapAndCrop ==
  /\ pc = "rows"
  /\ y >= h
  /\ bestArea > 0
  /\ cropCalls' = IF NonDegenerate(CropRegion)
                    THEN Append(cropCalls, CropRegion)
                    ELSE cropCalls
  /\ pc' = "done"
  /\ UNCHANGED <<inputVars, boundsVars, histVars, y, bestVars, profileVars,
                 disposed, getDataCalls>>

NextMain ==
  \/ GetPixels
  \/ CheckComponents
  \/ GetData
  \/ ReadBounds
  \/ UpdateHeights
  \/ PopStep
  \/ PushStep
  \/ NoRectangle
  \/ MapAndCrop

SpecMain == Init /\ [][NextMain]_vars

\* ------------------------------------- part_000: row-profile search
\* Lines 97-99: leftmost opaque column of row yy, -1 when there is none.
RECURSIVE FirstOpaque(_, _, _, _, _)
FirstOpaque(d, ww, thr, yy, x) ==
  IF x >= ww THEN -1
  ELSE IF AlphaAt(d, ww, x, yy) >= thr THEN x
  ELSE FirstOpaque(d, ww, thr, yy, x + 1)

\* Lines 102-104: rightmost opaque column of row yy, -1 when there is none.
RECURSIVE LastOpaque(_, _, _, _, _)
LastOpaque(d, ww, thr, yy, x) ==
  IF x < 0 THEN -1
  ELSE IF AlphaAt(d, ww, x, yy) >= thr THEN x
  ELSE LastOpaque(d, ww, thr, yy, x - 1)

\* Lines 81-108: bounds, threshold and the row profile L, R.
RowProfile ==
  /\ pc = "readBounds"
  /\ offX' = sb.left
  /\ offY' = sb.top
  /\ w' = sb.right - sb.left
  /\ h' = sb.bottom - sb.top
  /\ THR' = alphaThreshold(csize)
  /\ L' = [yy \in 0..(h' - 1) |-> FirstOpaque(data, w', THR', yy, 0)]
  /\ R' = [yy \in 0..(h' - 1) |->
             IF FirstOpaque(data, w', THR', yy, 0) = -1
               THEN -1
               ELSE LastOpaque(data, w', THR', yy, w' - 1)]
  /\ pc' = "widest"
  /\ UNCHANGED <<inputVars, histVars, y, bestVars, y0, maxL, minR, hostVars>>

\* Lines 111-117: <<y0, maxW>> after the loop has visited rows yy..h-1.
RECURSIVE WidestRow(_, _, _, _, _, _)
WidestRow(Lf, Rf, hh, yy, cur, maxW) ==
  IF yy >= hh THEN <<cur, maxW>>
  ELSE IF Lf[yy] >= 0 /\ Rf[yy] - Lf[yy] > maxW
    THEN WidestRow(Lf, Rf, hh, yy + 1, yy, Rf[yy] - Lf[yy])
    ELSE WidestRow(Lf, Rf, hh, yy + 1, cur, maxW)

\* Lines 110-129: pick the widest row; leave when no row has an opaque pixel.
FindWidestRow ==
  /\ pc = "widest"
  /\ LET r == WidestRow(L, R, h, 0, -1, -1)
     IN /\ y0' = r[1]
        /\ IF r[1] < 0
             THEN /\ disposed' = disposed + 1
                  /\ pc' = "done"
                  /\ UNCHANGED <<bestVars, maxL, minR, y>>
             ELSE /\ disposed' = disposed
                  /\ bestArea' = 0
                  /\ bestL' = L[r[1]] /\ bestR' = R[r[1]]
                  /\ bestT' = r[1] /\ bestB' = r[1]
                  /\ maxL' = L[r[1]] /\ minR' = R[r[1]]
                  /\ y' = r[1]
                  /\ pc' = "up"
  /\ UNCHANGED <<inputVars, boundsVars, histVars, L, R, getDataCalls, cropCalls>>

\* Lines 130-146: one iteration of the upward loop; on exit the downward
\* loop's maxL, minR and y are initialised.
UpStep ==
  /\ pc = "up"
  /\ IF y < 0 \/ L[y] < 0 \/ Max(maxL, L[y]) >= Min(minR, R[y])
       THEN /\ maxL' = L[y0] /\ minR' = R[y0]
            /\ y' = y0
            /\ pc' = "down"
            /\ UNCHANGED bestVars
       ELSE /\ maxL' = Max(maxL, L[y])
            /\ minR' = Min(minR, R[y])
            /\ y' = y - 1
            /\ pc' = "up"
            /\ LET area == (y0 - y + 1) * (minR' - maxL')
               IN IF Improves(area, bestArea)
                    THEN /\ bestArea' = area
                         /\ bestL' = maxL' /\ bestR' = minR'
                         /\ bestT' = y /\ bestB' = y0
                    ELSE UNCHANGED bestVars
  /\ UNCHANGED <<inputVars, boundsVars, histVars, L, R, y0, hostVars>>

\* Lines 147-158: one iteration of the downward loop.
DownStep ==
  /\ pc = "down"
  /\ IF y >= h \/ L[y] < 0 \/ Max(maxL, L[y]) >= Min(minR, R[y])
       THEN /\ pc' = "map"
            /\ UNCHANGED <<maxL, minR, y, bestVars>>
       ELSE /\ maxL' = Max(maxL, L[y])
            /\ minR' = Min(minR, R[y])
            /\ y' = y + 1
            /\ pc' = "down"
            /\ LET area == (y - y0 + 1) * (minR' - maxL')
               IN IF Improves(area, bestArea)
                    THEN /\ bestArea' = area
                         /\ bestL' = maxL' /\ bestR' = minR'
                         /\ bestT' = y0 /\ bestB' = y
                    ELSE UNCHANGED bestVars
  /\ UNCHANGED <<inputVars, boundsVars, histVars, L, R, y0, hostVars>>

\* Lines 161-171: map to document coordinates, crop, dispose.
MapAndCropProfile ==
  /\ pc = "map"
  /\ cropCalls' = IF NonDegenerate(CropRegion)
                    THEN Append(cropCalls, CropRegion)
                    ELSE cropCalls
  /\ disposed' = disposed + 1
  /\ pc' = "done"
  /\ UNCHANGED <<inputVars, boundsVars, histVars, y, bestVars, profileVars,
                 getDataCalls>>

NextProfile ==
  \/ GetPixels
  \/ CheckComponents
  \/ GetData
  \/ RowProfile
  \/ FindWidestRow
  \/ UpStep
  \/ DownStep
  \/ MapAndCropProfile

SpecProfile == Init /\ [][NextProfile]_vars

\* Either build of the plugin.
Next == NextMain \/ NextProfile

Spec == Init /\ [][Next]_vars

\* ===================================================== properties
\* The threshold table of the specification (section 4.1), in thousandths.
ClaimThreshold(cs) ==
  CASE cs = 16 -> 256000
    [] cs = 32 -> 2
    [] OTHER -> 2000

GridW == sb.right - sb.left
GridH == sb.bottom - sb.top
HasGrid == Len(data) > 0

IsOpaque(x, yy) == AlphaAt(data, GridW, x, yy) >= ClaimThreshold(csize)

Cells == (0..(GridW - 1)) \X (0..(GridH - 1))
SomeOpaque == \E c \in Cells : IsOpaque(c[1], c[2])
AllBelow == \A c \in Cells : ~IsOpaque(c[1], c[2])
AllOpaqueGrid == \A c \in Cells : IsOpaque(c[1], c[2])

\* Rectangles <<left, right, top, bottom>>, right and bottom exclusive.
Rects ==
  {r \in (0..GridW) \X (0..GridW) \X (0..GridH) \X (0..GridH) :
     r[1] < r[2] /\ r[3] < r[4]}

RectOpaque(l, r, t, b) ==
  \A x \in l..(r - 1) : \A yy \in t..(b - 1) : IsOpaque(x, yy)

Area(r) == (r[2] - r[1]) * (r[4] - r[3])

OpaqueRects == {r \in Rects : RectOpaque(r[1], r[2], r[3], r[4])}

\* Brute force: the largest area of an all-opaque rectangle, 0 if none.
MaxOpaqueArea ==
  LET cand == OpaqueRects
  IN IF cand = {} THEN 0
     ELSE CHOOSE a \in {Area(r) : r \in cand} : \A r \in cand : Area(r) <= a

MaxRects ==
  LET cand == OpaqueRects
      m == IF cand = {} THEN 0
           ELSE CHOOSE a \in {Area(r) : r \in cand} : \A r \in cand : Area(r) <= a
  IN {r \in cand : Area(r) = m}

\* The histogram search of main.js has visited every row.
SearchEnded == HasGrid /\ ((pc = "rows" /\ y >= h) \/ pc = "done")

\* The up/down search of part_000 has ended.
ProfileSearchEnded == HasGrid /\ y0 >= 0 /\ pc \in {"map", "done"}

\* ---- C1
\* C1: for every grid with at least one sample at or above the threshold,
\* the histogram-stack search ends with bestArea > 0, bestArea equal to
\* (bestR - bestL) * (bestB - bestT), and equal to the largest area of an
\* all-opaque axis-aligned rectangle found by enumerating all rectangles.
C1_MaxArea ==
  (SearchEnded /\ SomeOpaque) =>
    /\ bestArea > 0
    /\ bestArea = (bestR - bestL) * (bestB - bestT)
    /\ bestArea = MaxOpaqueArea

C1_Witness ==
  /\ pc = "done" /\ HasGrid
  /\ GridW = 3 /\ GridH = 3
  /\ ~AllOpaqueGrid
  /\ bestArea = 4 /\ bestR - bestL = 2

\* ---- C2
\* C2: whenever getPixels returned an image with imageData, dispose() has
\* been called exactly once when the modal callback finishes, on every
\* exit path.
C2_DisposedOnce == (pc = "done" /\ hasImage) => disposed = 1

\* ---- C3
\* C3: whenever the histogram-stack search holds a recorded rectangle
\* (bestArea > 0, at any point of the scan and at its end), the rectangle
\* lies inside the grid with left < right and top < bottom, and every
\* sample inside it is at or above the threshold.
C3_RecordedRectOpaque ==
  bestArea > 0 =>
    /\ 0 <= bestL /\ bestL < bestR /\ bestR <= GridW
    /\ 0 <= bestT /\ bestT < bestB /\ bestB <= GridH
    /\ RectOpaque(bestL, bestR, bestT, bestB)

\* The bounding box of the opaque samples.
BoxL == CHOOSE x \in 0..(GridW - 1) :
          /\ \E yy \in 0..(GridH - 1) : IsOpaque(x, yy)
          /\ \A c \in Cells : IsOpaque(c[1], c[2]) => x <= c[1]
BoxR == CHOOSE x \in 0..(GridW - 1) :
          /\ \E yy \in 0..(GridH - 1) : IsOpaque(x, yy)
          /\ \A c \in Cells : IsOpaque(c[1], c[2]) => x >= c[1]
BoxT == CHOOSE yy \in 0..(GridH - 1) :
          /\ \E x \in 0..(GridW - 1) : IsOpaque(x, yy)
          /\ \A c \in Cells : IsOpaque(c[1], c[2]) => yy <= c[2]
BoxB == CHOOSE yy \in 0..(GridH - 1) :
          /\ \E x \in 0..(GridW - 1) : IsOpaque(x, yy)
          /\ \A c \in Cells : IsOpaque(c[1], c[2]) => yy >= c[2]

\* An L-shaped opaque region: the search has ended on a rectangle smaller
\* than the bounding box, which holds a sample below the threshold.
C3_Witness ==
  /\ pc = "done" /\ HasGrid /\ SomeOpaque
  /\ bestArea >= 3
  /\ ~RectOpaque(BoxL, BoxR + 1, BoxT, BoxB + 1)
  /\ IsOpaque(0, 0) /\ IsOpaque(GridW - 1, 0) /\ IsOpaque(0, GridH - 1)
  /\ ~IsOpaque(GridW - 1, GridH - 1)

\* ---- C4
\* C4: for a grid whose every sample is below the threshold, no rectangle
\* is reported (bestArea stays 0 in main.js, y0 stays -1 in the row-profile
\* build) and doc.crop is never invoked.
C4_NoRectangleNoCrop ==
  (HasGrid /\ AllBelow) => (bestArea = 0 /\ y0 = -1 /\ cropCalls = <<>>)

C4_Witness ==
  /\ pc = "done" /\ HasGrid /\ AllBelow
  /\ GridW * GridH >= 4
  /\ disposed = 1
  /\ DOMAIN heights # {}

\* ---- C5
\* C5: for a w x h grid (w, h >= 1) whose every sample is at or above the
\* threshold, the search result is bestL = 0, bestR = w, bestT = 0,
\* bestB = h.
C5_FullGrid ==
  (SearchEnded /\ AllOpaqueGrid) =>
    (bestL = 0 /\ bestR = GridW /\ bestT = 0 /\ bestB = GridH)

C5_Witness ==
  /\ pc = "done" /\ HasGrid /\ AllOpaqueGrid
  /\ GridW >= 2 /\ GridH >= 2
  /\ bestR = GridW /\ bestB = GridH

\* ---- C6
ClaimClamp(v, lo, hi) == IF v < lo THEN lo ELSE IF v > hi THEN hi ELSE v

\* C6: doc.crop is invoked at most once per run, only with the region
\* cropL = clamp(offX + bestL + INSET, 0, docWidth), cropR = clamp(offX +
\* bestR - INSET, 0, docWidth), cropT = clamp(offY + bestT + INSET, 0,
\* docHeight), cropB = clamp(offY + bestB - INSET, 0, docHeight), which has
\* cropL < cropR and cropT < cropB; and never when bestR - bestL <= 2*INSET
\* or bestB - bestT <= 2*INSET.
C6_CropRegion ==
  /\ Len(cropCalls) <= 1
  /\ Len(cropCalls) = 1 =>
       /\ cropCalls[1].left = ClaimClamp(sb.left + bestL + 1, 0, width)
       /\ cropCalls[1].right = ClaimClamp(sb.left + bestR - 1, 0, width)
       /\ cropCalls[1].top = ClaimClamp(sb.top + bestT + 1, 0, height)
       /\ cropCalls[1].bottom = ClaimClamp(sb.top + bestB - 1, 0, height)
       /\ cropCalls[1].left < cropCalls[1].right
       /\ cropCalls[1].top < cropCalls[1].bottom
  /\ (bestR - bestL <= 2 \/ bestB - bestT <= 2) => cropCalls = <<>>

C6_Witness ==
  /\ pc = "done"
  /\ Len(cropCalls) = 1
  /\ sb.left = 1 /\ sb.top = 0
  /\ bestL = 0 /\ bestR = 3 /\ bestT = 0 /\ bestB = 3
  /\ cropCalls[1] = [left |-> 2, right |-> 3, top |-> 1, bottom |-> 2]

\* ---- C7
\* C7: alphaThreshold gives 256 for depth 16, 0.002 for depth 32 and 2 for
\* depth 8 and any other depth; in the scan a sample equal to the threshold
\* is opaque (the run length of its column grows by one) and a sample below
\* it, in particular one less than it, resets the run length to 0.
C7_ThresholdBoundary ==
  [][(pc = "rows" /\ pc' = "scan") =>
       /\ THR = ClaimThreshold(csize)
       /\ \A x \in 0..(w - 1) :
            LET a == AlphaAt(data, w, x, y)
            IN /\ a = ClaimThreshold(csize) => heights'[x] = heights[x] + 1
               /\ a < ClaimThreshold(csize) => heights'[x] = 0]_vars

\* A second row has been scanned at depth 8: one column met alpha 2 twice
\* and has run length 2, another met alpha 1 (one less) after alpha 2.
C7_Witness ==
  /\ pc = "scan" /\ y = 1 /\ csize = 8
  /\ \E x \in 0..(w - 1) :
       /\ AlphaAt(data, w, x, 0) = 2000 /\ AlphaAt(data, w, x, 1) = 2000
       /\ heights[x] = 2
  /\ \E x \in 0..(w - 1) :
       /\ AlphaAt(data, w, x, 0) = 2000 /\ AlphaAt(data, w, x, 1) = 1000
       /\ heights[x] = 0

\* ---- C8
\* C8: when the acquired image reports components # 4, the run fetches no
\* pixel data, runs no rectangle search, never calls doc.crop, and ends.
C8_NoAlphaNoOp ==
  (hasImage /\ comps # 4) =>
    /\ pc \in {"checkComps", "done"}
    /\ getDataCalls = 0
    /\ data = <<>>
    /\ DOMAIN heights = {} /\ DOMAIN L = {}
    /\ bestArea = 0 /\ y0 = -1
    /\ cropCalls = <<>>

C8_Witness == pc = "done" /\ hasImage /\ comps = 3 /\ disposed = 1

\* ---- C9
\* Scan order of the candidates of maximal area: by bottom edge (rows are
\* scanned top to bottom), then by right edge (the column at which the
\* candidate is popped), then the taller one (popped first).
ScannedBefore(p, q) ==
  \/ p[4] < q[4]
  \/ p[4] = q[4] /\ p[2] < q[2]
  \/ p[4] = q[4] /\ p[2] = q[2] /\ p[3] < q[3]

FirstMaxRect ==
  LET cand == MaxRects
  IN CHOOSE p \in cand : \A q \in cand : p = q \/ ScannedBefore(p, q)

\* C9 as stated: among the all-opaque rectangles of maximal area the
\* search returns the topmost one.
C9_Topmost ==
  (SearchEnded /\ bestArea > 0) =>
    /\ <<bestL, bestR, bestT, bestB>> \in MaxRects
    /\ \A q \in MaxRects : bestT <= q[3]

\* C9 as amended: among the all-opaque rectangles of maximal area the
\* search returns the first one found in scan order (smallest bottom edge,
\* then smallest right edge, then the taller), and the recorded rectangle
\* is replaced only by a candidate of strictly greater area.
C9_FirstFound ==
  /\ []((SearchEnded /\ bestArea > 0) =>
          <<bestL, bestR, bestT, bestB>> = FirstMaxRect)
  /\ [][bestVars' # bestVars => bestArea' > bestArea]_vars

\* Two rectangles tie for the maximal area and the one returned is not the
\* one with the smallest top edge.
C9_Witness ==
  /\ pc = "done" /\ HasGrid /\ bestArea > 0
  /\ Cardinality(MaxRects) >= 2
  /\ <<bestL, bestR, bestT, bestB>> = FirstMaxRect
  /\ \E q \in MaxRects : q[3] < bestT

\* ---- C10
\* Every row's opaque samples form one contiguous run.
RowConvex ==
  \A yy \in 0..(GridH - 1) : \A x1, x2, x3 \in 0..(GridW - 1) :
    (x1 < x2 /\ x2 < x3 /\ IsOpaque(x1, yy) /\ IsOpaque(x3, yy)) => IsOpaque(x2, yy)

\* C10: in the row-profile build, for every mask whose opaque region is
\* convex (each row's opaque samples are one run), the rectangle selected
\* by the up/down search (columns bestL..bestR, rows bestT..bestB) is an
\* all-opaque rectangle of maximal area.
C10_ConvexMax ==
  (ProfileSearchEnded /\ RowConvex) =>
    /\ RectOpaque(bestL, bestR + 1, bestT, bestB + 1)
    /\ (bestR - bestL + 1) * (bestB - bestT + 1) = MaxOpaqueArea

====
